---- MODULE Spec2Model ----
(***************************************************************************)
(* A model of resize_image.py: the command line entry point, the work      *)
(* enumeration and the thread-pool batch runner of resize_image_dir, and   *)
(* the single-image operation resize_image with its size arithmetic.       *)
(***************************************************************************)
EXTENDS Integers, Sequences, FiniteSets

(***************************************************************************)
(* IEEE-754 binary64 arithmetic.                                           *)
(*                                                                         *)
(* resize_image computes the new size with Python floats:                  *)
(*     ratio = float(w) / h ;  int(w / ratio)  or  int(h * ratio)          *)
(* Each float operation returns the exact result rounded to the nearest    *)
(* double (ties to even), and int() truncates.  A positive double is the   *)
(* record [m, e] standing for m * 2^e with 2^52 <= m < 2^53; the 53-bit    *)
(* significand m is a little-endian tuple of limbs in base 2^14, because   *)
(* the model checker's integers are 32 bits wide.  Zero is [m = 0, e = 0]. *)
(***************************************************************************)
Min2(a, b) == IF a < b THEN a ELSE b

Max2(a, b) == IF a > b THEN a ELSE b

LimbBits == 14

LimbBase == 2 ^ LimbBits

\* the element of a set of one element.  The({e : x \in {v}}) is e with v
\* for x, v evaluated once and before e
The(S) == CHOOSE r \in S : TRUE

Limb(a, i) == IF i \in 1..Len(a) THEN a[i] ELSE 0

\* the limbs of an integer 0 <= n < 2^28, as a tuple of len limbs
BigFromInt(n, len) ==
    [i \in 1..len |->
        IF i = 1 THEN n % LimbBase ELSE IF i = 2 THEN n \div LimbBase ELSE 0] \o <<>>

BigZero(len) == BigFromInt(0, len)

BigIsZero(a) == \A i \in 1..Len(a) : a[i] = 0

\* the integer a tuple of limbs stands for (used only below 2^28)
BigToInt(a) == Limb(a, 1) + LimbBase * Limb(a, 2)

RECURSIVE CarryFrom(_, _, _)
CarryFrom(x, i, c) ==
    IF i > Len(x) THEN <<>>
    ELSE <<(x[i] + c) % LimbBase>> \o CarryFrom(x, i + 1, (x[i] + c) \div LimbBase)

\* carry (or borrow) propagation: every limb back into 0..LimbBase-1; what
\* is carried out of the top limb is dropped, so that a negative number
\* a - b wraps to a - b + LimbBase^len
BigNorm(x) == CarryFrom(x, 1, 0)

\* a + b and a - b, with the limbs of a
BigAdd(a, b) == BigNorm([i \in 1..Len(a) |-> a[i] + Limb(b, i)])

BigSub(a, b) == BigNorm([i \in 1..Len(a) |-> a[i] - Limb(b, i)])

\* a * n for a small n (n < 2^16), as len limbs
BigMulSmall(a, n, len) == BigNorm([i \in 1..len |-> n * Limb(a, i)])

\* a < b, for tuples of any two lengths
BigLess(a, b) ==
    \E i \in 1..Max2(Len(a), Len(b)) :
        /\ Limb(a, i) < Limb(b, i)
        /\ \A j \in (i + 1)..Max2(Len(a), Len(b)) : Limb(a, j) = Limb(b, j)

\* a against b: -1 below, 0 equal, 1 above
BigCmp(a, b) == IF BigLess(a, b) THEN -1 ELSE IF BigLess(b, a) THEN 1 ELSE 0

BigIsOdd(a) == a[1] % 2 = 1

\* floor(a / 2^s), as len limbs
BigShiftRight(a, s, len) ==
    [i \in 1..len |->
        (Limb(a, i + s \div LimbBits) \div (2 ^ (s % LimbBits)))
        + (Limb(a, i + s \div LimbBits + 1) % (2 ^ (s % LimbBits)))
          * (2 ^ (LimbBits - (s % LimbBits)))] \o <<>>

\* a * 2^s, as len limbs (the bits above them dropped)
BigShiftLeft(a, s, len) ==
    [i \in 1..len |->
        ((Limb(a, i - s \div LimbBits) * (2 ^ (s % LimbBits))) % LimbBase)
        + (Limb(a, i - s \div LimbBits - 1) \div (2 ^ (LimbBits - (s % LimbBits))))] \o <<>>

\* a mod 2^s
BigLowBits(a, s) ==
    [i \in 1..Len(a) |->
        IF i <= s \div LimbBits THEN a[i]
        ELSE IF i = s \div LimbBits + 1 THEN a[i] % (2 ^ (s % LimbBits))
        ELSE 0] \o <<>>

\* the product of two 4-limb numbers, as 8 limbs
BigMul(a, b) ==
    BigNorm([k \in 1..8 |->
                a[1] * Limb(b, k) + a[2] * Limb(b, k - 1)
                + a[3] * Limb(b, k - 2) + a[4] * Limb(b, k - 3)])

RECURSIVE BitLength(_)
BitLength(n) == IF n = 0 THEN 0 ELSE 1 + BitLength(n \div 2)

MantBits == 53

\* the bits of a normalised significand that lie in its top (fourth) limb
TopBits == MantBits - 3 * LimbBits

FZero == [m |-> BigZero(4), e |-> 0]

FIsZero(x) == BigIsZero(x.m)

\* float(n) for an integer 0 <= n < 2^28: exact
FromInt(n) ==
    IF n = 0 THEN FZero
    ELSE [m |-> BigShiftLeft(BigFromInt(n, 4), MantBits - BitLength(n), 4),
          e |-> BitLength(n) - MantBits]

\* a significand and exponent after a carry out of the 53 bits
FRenorm(q, e) ==
    IF q[4] >= 2 ^ TopBits THEN [m |-> BigShiftRight(q, 1, 4), e |-> e + 1]
    ELSE [m |-> q, e |-> e]

\* q or q + 1 by round-to-nearest, ties-to-even; cmp is the discarded part
\* against one half: -1 below, 0 equal, 1 above
FRound(q, e, cmp) ==
    IF cmp = 1 \/ (cmp = 0 /\ BigIsOdd(q))
    THEN The({FRenorm(q1, e) : q1 \in {BigAdd(q, BigFromInt(1, 4))}})
    ELSE [m |-> q, e |-> e]

\* the estimate of the next quotient digit from the two leading limbs of the
\* shifted remainder n and the leading limb of the divisor; at most two too
\* large when that limb is at least LimbBase / 2
DivEstimate(n, d, bits) == Min2((n[5] * LimbBase + n[4]) \div d[4], 2 ^ bits - 1)

RECURSIVE DivAdjust(_, _, _)
\* the digit q and the remainder r = n - q * d it leaves, q lowered while r
\* is negative (its sixth limb is then not 0): <<digit, remainder>>
DivAdjust(q, r, d) ==
    IF r[6] # 0
    THEN The({DivAdjust(q - 1, r1, d) : r1 \in {BigAdd(r, d)}})
    ELSE <<q, SubSeq(r, 1, 4)>>

DivTry(q, n, d) ==
    The({The({DivAdjust(q, r, d) : r \in {BigSub(n, p)}}) :
             p \in {BigMulSmall(d, q, 6)}})

\* One step of long division: the next `bits` bits of the quotient of rem / d
\* and the remainder they leave, <<digit, remainder>>, for rem < d and a
\* divisor d of four limbs
DivDigit(rem, d, bits) ==
    The({The({DivTry(q, n, d) : q \in {DivEstimate(n, d, bits)}}) :
             n \in {BigShiftLeft(rem, bits, 6)}})

RECURSIVE DivLimbs(_, _, _)
\* k more limbs of the quotient: <<limbs, remainder>>
DivLimbs(rem, d, k) ==
    IF k = 0 THEN <<<<>>, rem>>
    ELSE The({The({<<t[1] \o <<s[1]>>, t[2]>> : t \in {DivLimbs(s[2], d, k - 1)}}) :
                  s \in {DivDigit(rem, d, LimbBits)}})

\* the quotient of 53 bits from the remainder rem, whose leading bits are
\* lead and whose top limb has `bits` more bits, rounded by the remainder
FDivFrom(rem, lead, bits, d, e) ==
    The({The({The({FRound(t[1] \o <<s[1] + lead>>, e, BigCmp(r2, d)) :
                       r2 \in {BigShiftLeft(t[2], 1, 5)}}) :
                  t \in {DivLimbs(s[2], d, 3)}}) :
             s \in {DivDigit(rem, d, bits)}})

\* n / d for two significands shifted up to fill their four limbs: the
\* quotient starts with a 1 bit when n >= d
FDivSig(n, d, e, big) ==
    The({FDivFrom(rem, IF big THEN 2 ^ (TopBits - 1) ELSE 0,
                  IF big THEN TopBits - 1 ELSE TopBits, d,
                  IF big THEN e - (MantBits - 1) ELSE e - MantBits) :
             rem \in {IF big THEN BigSub(n, d) ELSE n}})

\* x / y on doubles (y # 0): the 53-bit quotient of the significands, rounded
FDiv(x, y) ==
    IF FIsZero(x) THEN FZero
    ELSE The({FDivSig(n, d, x.e - y.e, ~BigLess(n, d)) :
                  n \in {BigShiftLeft(x.m, 4 * LimbBits - MantBits, 4)},
                  d \in {BigShiftLeft(y.m, 4 * LimbBits - MantBits, 4)}})

\* the product p of two significands, cut to 53 bits and rounded by the s
\* bits cut off
FMulRound(p, s, e) ==
    The({FRound(q, e + s, BigCmp(low, BigShiftLeft(BigFromInt(1, 8), s - 1, 8))) :
             q \in {BigShiftRight(p, s, 4)}, low \in {BigLowBits(p, s)}})

\* x * y on doubles: the 106-bit product of the significands, rounded
FMul(x, y) ==
    IF FIsZero(x) \/ FIsZero(y) THEN FZero
    ELSE The({FMulRound(p, IF p[8] >= 2 ^ (2 * MantBits - 1 - 7 * LimbBits)
                           THEN MantBits ELSE MantBits - 1,
                        x.e + y.e) :
                  p \in {BigMul(x.m, y.m)}})

\* int(x) for a double 0 <= x < 2^28: truncation
FTrunc(x) ==
    IF FIsZero(x) \/ -x.e >= MantBits THEN 0
    ELSE BigToInt(BigShiftRight(x.m, -x.e, 4))

(***************************************************************************)
(* The size arithmetic of resize_image, lines 42-49.                       *)
(***************************************************************************)
\* <<new width, new height>> for a decoded w x h image
NewSize(w, h, edge) ==
    The({IF w > h
             THEN <<edge, FTrunc(FDiv(FromInt(edge), ratio))>>
             ELSE <<FTrunc(FMul(FromInt(edge), ratio)), edge>> :
             ratio \in {FDiv(FromInt(w), FromInt(h))}})

(***************************************************************************)
(* Strings are tuples of one-character strings, so that the path and       *)
(* extension operations of os.path can be computed as the library does.    *)
(***************************************************************************)
\* p.rfind(c), counted from 1; 0 when c does not occur
RFind(p, c) ==
    IF \E i \in 1..Len(p) : p[i] = c
    THEN CHOOSE i \in 1..Len(p) : p[i] = c /\ \A j \in (i + 1)..Len(p) : p[j] # c
    ELSE 0

\* os.path.splitext: <<root, ext>>; the extension starts at the last dot of
\* the last path component, and leading dots of that component are no extension
Splitext(p) ==
    LET sepIndex == RFind(p, "/")
        dotIndex == RFind(p, ".")
    IN  IF dotIndex > sepIndex /\ \E i \in (sepIndex + 1)..(dotIndex - 1) : p[i] # "."
        THEN <<SubSeq(p, 1, dotIndex - 1), SubSeq(p, dotIndex, Len(p))>>
        ELSE <<p, <<>>>>

\* os.path.join of two components
Join(a, b) ==
    IF Len(b) > 0 /\ b[1] = "/" THEN b
    ELSE IF Len(a) = 0 \/ a[Len(a)] = "/" THEN a \o b
    ELSE a \o <<"/">> \o b

DigitChars == <<"0", "1", "2", "3", "4", "5", "6", "7", "8", "9">>

IsDigit(c) == \E i \in 1..10 : DigitChars[i] = c

DigitVal(c) == (CHOOSE i \in 1..10 : DigitChars[i] = c) - 1

\* whether int(s) succeeds, for s without sign, blanks or underscores
IsInt(s) == Len(s) > 0 /\ \A i \in 1..Len(s) : IsDigit(s[i])

RECURSIVE ParseInt(_)
\* int(s) for a string of decimal digits
ParseInt(s) ==
    IF Len(s) = 0 THEN 0
    ELSE 10 * ParseInt(SubSeq(s, 1, Len(s) - 1)) + DigitVal(s[Len(s)])

(***************************************************************************)
(* The file system.  fs maps a path to what is there: nothing, a           *)
(* directory, or a regular file.  A regular file that cv2.imread decodes   *)
(* carries the width and height of its image; one that it cannot decode    *)
(* (a text file, a corrupt or empty image) has width 0.                    *)
(***************************************************************************)
Absent == [kind |-> "absent", w |-> 0, h |-> 0]

Directory == [kind |-> "dir", w |-> 0, h |-> 0]

ImageFile(w, h) == [kind |-> "file", w |-> w, h |-> h]

CorruptFile == [kind |-> "file", w |-> 0, h |-> 0]

\* the two directories of the model and the program's own path
SrcDir == <<"/", "s">>

DstDir == <<"/", "d">>

ProgName == <<"r", ".", "p", "y">>

\* What may lie in the source directory: a name and what is there, a file
\* with what it holds or, for b.png, a directory.
Catalogue ==
    { <<<<"a", ".", "j", "p", "g">>, ImageFile(2, 1)>>,
      <<<<"b", ".", "p", "n", "g">>, Directory>>,
      <<<<"a", ".", "p", "n", "g">>, ImageFile(1, 2)>>,
      <<<<"c", ".", "j", "p", "e", "g">>, CorruptFile>>,
      <<<<"n", ".", "t", "x", "t">>, CorruptFile>>,
      <<<<"d", ".", "J", "P", "G">>, ImageFile(2, 2)>>,
      <<<<"e">>, ImageFile(1, 1)>> }

\* What may already lie in the destination directory: a regular file with
\* the name of a candidate, and a directory with the name of another.
DstCatalogue ==
    { <<<<"a", ".", "j", "p", "g">>, ImageFile(1, 1)>>,
      <<<<"a", ".", "p", "n", "g">>, Directory>> }

Names == {f[1] : f \in Catalogue}

Content(name) == (CHOOSE f \in Catalogue : f[1] = name)[2]

Dirs == {SrcDir, DstDir}

Paths == Dirs \cup {Join(d, n) : d \in Dirs, n \in Names}

VARIABLES
    argv,            \* sys.argv
    fs,              \* the file system
    pc,              \* where the main thread is
    called,          \* whether resize_image_dir has been called in this run
    ret,             \* what resize_image_dir returned: "none", "true", "false"
    src_dir,         \* the parameters of resize_image_dir
    dst_dir,
    larger_edge,
    file_pair_list,  \* the work items: <<source path, destination path>>
    futs,            \* the futures of the submitted tasks, in submission order
    consumed,        \* the futures as_completed has yielded to the loop
    ok_cnt,
    fail_cnt,
    out,             \* what the main thread has printed, in order
    run,             \* the number of this invocation of the program
    hist,            \* what the earlier invocations did
    external         \* how many files another process has removed

vars == <<argv, fs, pc, called, ret, src_dir, dst_dir, larger_edge, file_pair_list,
          futs, consumed, ok_cnt, fail_cnt, out, run, hist, external>>

isfile(p) == p \in DOMAIN fs /\ fs[p].kind = "file"

isdir(p) == p \in DOMAIN fs /\ fs[p].kind = "dir"

\* os.listdir: the names of everything in the directory
listdir(d) == {n \in Names : fs[Join(d, n)].kind # "absent"}

\* the orders in which os.listdir may return a set of names
Orders(S) ==
    {o \in [1..Cardinality(S) -> S] : \A i, j \in 1..Cardinality(S) : o[i] = o[j] => i = j}

(***************************************************************************)
(* Bounds of the model.                                                    *)
(***************************************************************************)
\* files in the source directory
MaxSrcFiles == 3

\* invocations of the program, one after the other, on the same directories
MaxRuns == 2

\* files another process removes while the tasks run
MaxExternal == 1

\* image sides and larger edges of the direct calls of resize_image
MaxDim == 10

MaxEdge == 10

(***************************************************************************)
(* The initial states: a command line and a file system.                   *)
(***************************************************************************)
EdgeArgs == {<<"1">>, <<"1", "0">>}

Argvs ==
    {<<ProgName>>, <<ProgName, SrcDir>>, <<ProgName, SrcDir, DstDir>>}
    \cup {<<ProgName, SrcDir, d, e>> : d \in Dirs, e \in EdgeArgs}
    \cup {<<ProgName, SrcDir, SrcDir, <<"1", "0">>, <<"x">>>>}

\* the file system with the two directories as given, the catalogue's files S
\* in the source directory and the entries D in the destination directory
MakeFs(sk, dk, S, D) ==
    [p \in Paths |->
        IF p = SrcDir THEN sk
        ELSE IF p = DstDir THEN dk
        ELSE IF \E n \in S : p = Join(SrcDir, n)
             THEN Content(CHOOSE n \in S : p = Join(SrcDir, n))
        ELSE IF \E f \in D : p = Join(DstDir, f[1])
             THEN (CHOOSE f \in D : p = Join(DstDir, f[1]))[2]
        ELSE Absent]

\* files lie only in a directory that exists
SrcSets(sk) ==
    IF sk = Directory
    THEN {T \in SUBSET Names : Cardinality(T) <= MaxSrcFiles}
    ELSE {{}}

\* a destination directory that is there is empty or holds the entries of
\* DstCatalogue
DstSets(dk) == IF dk = Directory THEN {{}, DstCatalogue} ELSE {{}}

\* the source directory exists or not; the destination directory exists, or
\* not, or a regular file has its name
FileSystems ==
    UNION { {MakeFs(sk, dk, S, D) : S \in SrcSets(sk), D \in DstSets(dk)} :
                sk \in {Directory, Absent}, dk \in {Directory, Absent, CorruptFile} }

Idle ==
    /\ called = FALSE
    /\ ret = "none"
    /\ src_dir = <<>>
    /\ dst_dir = <<>>
    /\ larger_edge = 0
    /\ file_pair_list = <<>>
    /\ futs = <<>>
    /\ consumed = {}
    /\ ok_cnt = 0
    /\ fail_cnt = 0
    /\ out = <<>>

Init ==
    /\ argv \in Argvs
    /\ fs \in FileSystems
    /\ pc = "main"
    /\ Idle
    /\ run = 1
    /\ hist = <<>>
    /\ external = 0

(***************************************************************************)
(* resize_image, lines 23-57: one task of the pool.                        *)
(***************************************************************************)
\* cv2.imwrite: the file system after writing an image of that size to the
\* path.  A path that cannot be opened for writing (a directory is there)
\* makes it return False without raising, and resize_image does not look at
\* what it returns.
imwrite(path, size) ==
    IF fs[path].kind = "dir" THEN fs
    ELSE [fs EXCEPT ![path] = ImageFile(size[1], size[2])]

\* The sizes of the catalogue's decodable images for the edges of the command
\* lines, computed once: NewSize, tabulated.
RECURSIVE SeqOf(_)
SeqOf(S) == IF S = {} THEN <<>>
            ELSE LET x == CHOOSE y \in S : TRUE IN <<x>> \o SeqOf(S \ {x})

SizeInputs ==
    SeqOf({<<f[2].w, f[2].h, ParseInt(e)>> :
               f \in {g \in Catalogue : g[2].w > 0}, e \in EdgeArgs})

SizeTable == [i \in DOMAIN SizeInputs |->
                 NewSize(SizeInputs[i][1], SizeInputs[i][2], SizeInputs[i][3])] \o <<>>

\* lines 42-49, by the table where it has the input
Size(w, h, edge) ==
    IF \E i \in DOMAIN SizeInputs : SizeInputs[i] = <<w, h, edge>>
    THEN SizeTable[CHOOSE i \in DOMAIN SizeInputs : SizeInputs[i] = <<w, h, edge>>]
    ELSE NewSize(w, h, edge)

\* what a task holds before cv2.imread has given it an image, and what
\* img.shape has nothing to say about
NoImage == [w |-> 0, h |-> 0]

\* line 41: cv2.imread returns the image of a file it can decode and None for
\* anything else, a missing file included
imread(path) ==
    IF fs[path].kind = "file" /\ fs[path].w > 0
    THEN [w |-> fs[path].w, h |-> fs[path].h]
    ELSE NoImage

\* the future of a task just submitted
NewFuture(pair) ==
    [src |-> pair[1], dst |-> pair[2], st |-> "pending", res |-> FALSE,
     img |-> NoImage, err |-> "none"]

\* CanStart for a pool that runs a task only after the task submitted
\* before it has succeeded
CanStartAfterOk(i) ==
    /\ futs[i].st = "pending"
    /\ i > 1 => (futs[i - 1].st = "done" /\ futs[i - 1].res)

\* a worker of the pool may take a task as soon as it is submitted: the pool
\* has at least five workers and tasks do not wait for one another
CanStart(i) == futs[i].st = "pending"

\* TaskStart without the test of line 36
TaskStartNoTest(i) ==
    /\ CanStart(i)
    /\ futs' = [futs EXCEPT ![i].st = "running"]
    /\ UNCHANGED <<argv, fs, pc, called, ret, src_dir, dst_dir, larger_edge,
                   file_pair_list, consumed, ok_cnt, fail_cnt, out, run, hist, external>>

\* lines 36-38: the task starts and tests its source path
TaskStart(i) ==
    /\ CanStart(i)
    /\ futs' = IF isfile(futs[i].src)
               THEN [futs EXCEPT ![i].st = "running"]
               ELSE [futs EXCEPT ![i].st = "done", ![i].res = FALSE,
                                 ![i].err = "file not exist"]
    /\ UNCHANGED <<argv, fs, pc, called, ret, src_dir, dst_dir, larger_edge,
                   file_pair_list, consumed, ok_cnt, fail_cnt, out, run, hist, external>>

\* TaskRead with a task whose image did not decode put back to be run again
TaskReadRetry(i) ==
    /\ futs[i].st = "running"
    /\ LET img == imread(futs[i].src)
       IN  futs' = IF img = NoImage
                   THEN [futs EXCEPT ![i].st = "pending"]
                   ELSE [futs EXCEPT ![i].st = "read", ![i].img = img]
    /\ UNCHANGED <<argv, fs, pc, called, ret, src_dir, dst_dir, larger_edge,
                   file_pair_list, consumed, ok_cnt, fail_cnt, out, run, hist, external>>

\* lines 40-42: the file as it is now is decoded; img.shape raises for None,
\* and the except clause of lines 55-57 returns False
TaskRead(i) ==
    /\ futs[i].st = "running"
    /\ LET img == imread(futs[i].src)
       IN  futs' = IF img = NoImage
                   THEN [futs EXCEPT ![i].st = "done", ![i].res = FALSE,
                                     ![i].err = "shape"]
                   ELSE [futs EXCEPT ![i].st = "read", ![i].img = img]
    /\ UNCHANGED <<argv, fs, pc, called, ret, src_dir, dst_dir, larger_edge,
                   file_pair_list, consumed, ok_cnt, fail_cnt, out, run, hist, external>>

\* lines 43-52: the new size, cv2.resize, which raises for a size with a
\* side that is not positive (the except clause of lines 55-57 then returns
\* False), and cv2.imwrite; the call has not returned yet
TaskWrite(i) ==
    /\ futs[i].st = "read"
    /\ LET size == Size(futs[i].img.w, futs[i].img.h, larger_edge)
       IN  IF size[1] <= 0 \/ size[2] <= 0
           THEN /\ futs' = [futs EXCEPT ![i].st = "done", ![i].res = FALSE,
                                        ![i].err = "resize"]
                /\ fs' = fs
           ELSE /\ futs' = [futs EXCEPT ![i].st = "written"]
                /\ fs' = imwrite(futs[i].dst, size)
    /\ UNCHANGED <<argv, pc, called, ret, src_dir, dst_dir, larger_edge,
                   file_pair_list, consumed, ok_cnt, fail_cnt, out, run, hist, external>>

\* line 54: the call returns True and the future is done
TaskReturn(i) ==
    /\ futs[i].st = "written"
    /\ futs' = [futs EXCEPT ![i].st = "done", ![i].res = TRUE]
    /\ UNCHANGED <<argv, fs, pc, called, ret, src_dir, dst_dir, larger_edge,
                   file_pair_list, consumed, ok_cnt, fail_cnt, out, run, hist, external>>

(***************************************************************************)
(* The command line, lines 119-126.                                        *)
(***************************************************************************)
Say(line) == out' = Append(out, line)

\* sys.argv[1:4]
Args == SubSeq(argv, 2, Min2(4, Len(argv)))

\* Fewer than three elements of sys.argv print the usage.  Otherwise the
\* slice is unpacked into three names, which raises ValueError unless it has
\* three elements, and int() raises ValueError unless the third is a number.
Main ==
    /\ pc = "main"
    /\ IF Len(argv) < 3
       THEN /\ out' = out \o << <<"usage">>, <<"example">> >>
            /\ pc' = "exit"
            /\ UNCHANGED <<called, src_dir, dst_dir, larger_edge>>
       ELSE IF Len(Args) # 3 \/ ~IsInt(Args[3])
       THEN /\ pc' = "crashed"
            /\ UNCHANGED <<out, called, src_dir, dst_dir, larger_edge>>
       ELSE /\ src_dir' = Args[1]
            /\ dst_dir' = Args[2]
            /\ larger_edge' = ParseInt(Args[3])
            /\ called' = TRUE
            /\ pc' = "check"
            /\ UNCHANGED out
    /\ UNCHANGED <<argv, fs, ret, file_pair_list, futs, consumed, ok_cnt, fail_cnt,
                   run, hist, external>>

(***************************************************************************)
(* resize_image_dir, lines 60-116.                                         *)
(***************************************************************************)
\* CheckDirs with the destination directory made before the source
\* directory is tested
CheckDirsDstFirst ==
    /\ pc = "check"
    /\ IF fs[dst_dir].kind = "file"
       THEN /\ pc' = "crashed"
            /\ UNCHANGED <<fs, ret, out>>
       ELSE /\ fs' = [fs EXCEPT ![dst_dir] = Directory]
            /\ IF ~isdir(src_dir)
               THEN /\ Say(<<"dir not exist">>)
                    /\ ret' = "false"
                    /\ pc' = "exit"
               ELSE /\ pc' = "enumerate"
                    /\ UNCHANGED <<ret, out>>
    /\ UNCHANGED <<argv, called, src_dir, dst_dir, larger_edge, file_pair_list, futs,
                   consumed, ok_cnt, fail_cnt, run, hist, external>>

\* lines 73-78: the source directory must exist; the destination directory
\* is made when it is no directory, and os.makedirs raises FileExistsError
\* when a regular file has its name
CheckDirs ==
    /\ pc = "check"
    /\ IF ~isdir(src_dir)
       THEN /\ Say(<<"dir not exist">>)
            /\ ret' = "false"
            /\ pc' = "exit"
            /\ UNCHANGED fs
       ELSE IF isdir(dst_dir)
       THEN /\ pc' = "enumerate"
            /\ UNCHANGED <<fs, ret, out>>
       ELSE IF fs[dst_dir].kind = "absent"
       THEN /\ fs' = [fs EXCEPT ![dst_dir] = Directory]
            /\ pc' = "enumerate"
            /\ UNCHANGED <<ret, out>>
       ELSE /\ pc' = "crashed"
            /\ UNCHANGED <<fs, ret, out>>
    /\ UNCHANGED <<argv, called, src_dir, dst_dir, larger_edge, file_pair_list, futs,
                   consumed, ok_cnt, fail_cnt, run, hist, external>>

\* line 80
image_ext_set == { <<".", "j", "p", "g">>, <<".", "p", "n", "g">>,
                   <<".", "j", "p", "e", "g">> }

LowerCase == [c \in {"J", "P", "G", "E", "N"} |->
                 CASE c = "J" -> "j" [] c = "P" -> "p" [] c = "G" -> "g"
                   [] c = "E" -> "e" [] c = "N" -> "n"]

Lower(c) == IF c \in DOMAIN LowerCase THEN LowerCase[c] ELSE c

\* ExtOk with the extension lowered before the test
ExtOkAnyCase(ext) ==
    \E e \in image_ext_set :
        Len(e) = Len(ext) /\ \A i \in 1..Len(e) : Lower(ext[i]) = e[i]

\* line 85: the extension test
ExtOk(ext) == ext \in image_ext_set

\* DstPath with the extension dropped from the name
DstPathStem(dir, file_name) == Join(dir, Splitext(file_name)[1])

\* line 88: the destination path of a file name
DstPath(dir, file_name) == Join(dir, file_name)

\* SkipExisting that never skips
SkipNever(dst_file_path) == FALSE

\* SkipExisting with os.path.exists for os.path.isfile
SkipIfExists(dst_file_path) == fs[dst_file_path].kind # "absent"

\* line 89: the test that skips a candidate
SkipExisting(dst_file_path) == isfile(dst_file_path)

RECURSIVE EnumLoop(_)
\* lines 83-92: the loop over the listing, as the list it appends to
EnumLoop(names) ==
    IF names = <<>> THEN <<>>
    ELSE LET file_name == Head(names)
             ext       == Splitext(file_name)[2]
             dst_file_path == DstPath(dst_dir, file_name)
             rest      == EnumLoop(Tail(names))
         IN  IF ~ExtOk(ext) THEN rest
             ELSE IF SkipExisting(dst_file_path) THEN rest
             ELSE << <<Join(src_dir, file_name), dst_file_path>> >> \o rest

\* Enumerate without the test of line 94
EnumerateNoEmptyTest ==
    /\ pc = "enumerate"
    /\ \E order \in Orders(listdir(src_dir)) :
          file_pair_list' = EnumLoop(order)
    /\ pc' = "submit"
    /\ UNCHANGED <<argv, fs, called, ret, src_dir, dst_dir, larger_edge, futs, consumed,
                   ok_cnt, fail_cnt, out, run, hist, external>>

\* lines 81-96: the listing in whatever order os.listdir gives it, the loop,
\* and the return when nothing is left to do
Enumerate ==
    /\ pc = "enumerate"
    /\ \E order \in Orders(listdir(src_dir)) :
          LET pairs == EnumLoop(order)
          IN  /\ file_pair_list' = pairs
              /\ IF pairs = <<>>
                 THEN /\ Say(<<"no image">>)
                      /\ ret' = "true"
                      /\ pc' = "exit"
                 ELSE /\ pc' = "submit"
                      /\ UNCHANGED <<out, ret>>
    /\ UNCHANGED <<argv, fs, called, src_dir, dst_dir, larger_edge, futs, consumed,
                   ok_cnt, fail_cnt, run, hist, external>>

\* lines 98-104: one call of executor.submit for the next work item of the
\* list, after the line that announces the total when it is the first, and
\* with the counters of line 104 when it is the last.  The tasks submitted
\* before run meanwhile.
Submit ==
    /\ pc = "submit"
    /\ Len(futs) < Len(file_pair_list)
    /\ IF futs = <<>>
       THEN Say(<<"total", Len(file_pair_list)>>)
       ELSE UNCHANGED out
    /\ futs' = Append(futs, NewFuture(file_pair_list[Len(futs) + 1]))
    /\ IF Len(futs) + 1 = Len(file_pair_list)
       THEN /\ ok_cnt' = 0
            /\ fail_cnt' = 0
            /\ pc' = "collect"
       ELSE UNCHANGED <<ok_cnt, fail_cnt, pc>>
    /\ UNCHANGED <<argv, fs, called, ret, src_dir, dst_dir, larger_edge,
                   file_pair_list, consumed, run, hist, external>>

\* line 108
ProgressEvery == 1000

\* CountResult with the failure branch not counting
CountResultOkOnly(ok, fail, res) == IF res THEN <<ok + 1, fail>> ELSE <<ok, fail>>

\* CountResult with the two branches exchanged
CountResultSwapped(ok, fail, res) == IF res THEN <<ok, fail + 1>> ELSE <<ok + 1, fail>>

\* lines 106-111: the counters after a result
CountResult(ok, fail, res) == IF res THEN <<ok + 1, fail>> ELSE <<ok, fail + 1>>

\* lines 105-112: as_completed yields a finished future that it has not
\* yielded yet, and the loop body counts its result
Collect(i) ==
    /\ pc = "collect"
    /\ i \notin consumed
    /\ futs[i].st = "done"
    /\ consumed' = consumed \cup {i}
    /\ LET c == CountResult(ok_cnt, fail_cnt, futs[i].res)
       IN  /\ ok_cnt' = c[1]
           /\ fail_cnt' = c[2]
           /\ IF futs[i].res
              THEN IF c[1] % ProgressEvery = 0
                   THEN Say(<<"progress", c[1], Len(file_pair_list)>>)
                   ELSE UNCHANGED out
              ELSE Say(<<"fail", c[2]>>)
    /\ UNCHANGED <<argv, fs, pc, called, ret, src_dir, dst_dir, larger_edge,
                   file_pair_list, futs, run, hist, external>>

\* LoopDone that waits for the first completion only
LoopDoneFirst == consumed # {}

\* as_completed ends when it has yielded every future
LoopDone == consumed = DOMAIN futs

\* RetValue that reports a batch with failures as failed
RetValueNoFail(ok, fail) == IF fail = 0 THEN "true" ELSE "false"

\* line 116
RetValue(ok, fail) == "true"

\* lines 114-116: the summary and the return
Finish ==
    /\ pc = "collect"
    /\ LoopDone
    /\ Say(<<"finished", ok_cnt, fail_cnt>>)
    /\ ret' = RetValue(ok_cnt, fail_cnt)
    /\ pc' = "exit"
    /\ UNCHANGED <<argv, fs, called, src_dir, dst_dir, larger_edge, file_pair_list,
                   futs, consumed, ok_cnt, fail_cnt, run, hist, external>>

(***************************************************************************)
(* The environment: the program is run again with the same command line,   *)
(* and another process removes the source file of a work item at any       *)
(* moment of the batch: before its task is submitted, before or after the  *)
(* test of line 36, after cv2.imread, after cv2.imwrite, after the task    *)
(* has returned.                                                           *)
(***************************************************************************)
Rerun ==
    /\ pc = "exit"
    /\ run < MaxRuns
    /\ run' = run + 1
    /\ hist' = Append(hist, [items |-> {file_pair_list[i] : i \in DOMAIN file_pair_list},
                             ok |-> ok_cnt, fail |-> fail_cnt, ret |-> ret,
                             said |-> {out[i][1] : i \in DOMAIN out}])
    /\ pc' = "main"
    /\ called' = FALSE
    /\ ret' = "none"
    /\ src_dir' = <<>>
    /\ dst_dir' = <<>>
    /\ larger_edge' = 0
    /\ file_pair_list' = <<>>
    /\ futs' = <<>>
    /\ consumed' = {}
    /\ ok_cnt' = 0
    /\ fail_cnt' = 0
    /\ out' = <<>>
    /\ UNCHANGED <<argv, fs, external>>

ExternalRemove(i) ==
    /\ pc \in {"submit", "collect"}
    /\ external < MaxExternal
    /\ isfile(file_pair_list[i][1])
    /\ fs' = [fs EXCEPT ![file_pair_list[i][1]] = Absent]
    /\ external' = external + 1
    /\ UNCHANGED <<argv, pc, called, ret, src_dir, dst_dir, larger_edge, file_pair_list,
                   futs, consumed, ok_cnt, fail_cnt, out, run, hist>>

Next ==
    \/ Main
    \/ CheckDirs
    \/ Enumerate
    \/ Submit
    \/ \E i \in DOMAIN futs : TaskStart(i)
    \/ \E i \in DOMAIN futs : TaskRead(i)
    \/ \E i \in DOMAIN futs : TaskWrite(i)
    \/ \E i \in DOMAIN futs : TaskReturn(i)
    \/ \E i \in DOMAIN futs : Collect(i)
    \/ Finish
    \/ Rerun
    \/ \E i \in DOMAIN file_pair_list : ExternalRemove(i)

Spec == Init /\ [][Next]_vars

(***************************************************************************)
(* One execution of the program under fair scheduling.  MainThread is the  *)
(* main thread's next step (as_completed wakes up when a future is done    *)
(* and not yet yielded); Scheduled is whatever the interpreter can run:    *)
(* the main thread, a free worker of the pool taking a submitted task, a   *)
(* running call of resize_image going on.  The scheduler does not leave    *)
(* all of them waiting for ever; the other process may or may not come.    *)
(***************************************************************************)
MainThread ==
    \/ Main
    \/ CheckDirs
    \/ Enumerate
    \/ Submit
    \/ \E i \in DOMAIN futs : Collect(i)
    \/ Finish

Scheduled ==
    \/ MainThread
    \/ \E i \in DOMAIN futs : TaskStart(i)
    \/ \E i \in DOMAIN futs : TaskRead(i)
    \/ \E i \in DOMAIN futs : TaskWrite(i)
    \/ \E i \in DOMAIN futs : TaskReturn(i)

OneRun ==
    \/ Scheduled
    \/ \E i \in DOMAIN file_pair_list : ExternalRemove(i)

FairSpec == Init /\ [][OneRun]_vars /\ WF_vars(Scheduled)

(***************************************************************************)
(* Direct calls of resize_image(src_file_path, dst_file_path, larger_edge) *)
(* on an image of every size up to MaxDim with every edge up to MaxEdge.   *)
(***************************************************************************)
ProbeSrc == Join(SrcDir, <<"a", ".", "j", "p", "g">>)

ProbeDst == Join(DstDir, <<"a", ".", "j", "p", "g">>)

InitResize ==
    /\ argv = <<ProgName>>
    /\ \E w \in 1..MaxDim, h \in 1..MaxDim :
          fs = [p \in Paths |->
                   IF p \in Dirs THEN Directory
                   ELSE IF p = ProbeSrc THEN ImageFile(w, h)
                   ELSE Absent]
    /\ larger_edge \in 1..MaxEdge
    /\ futs = <<NewFuture(<<ProbeSrc, ProbeDst>>)>>
    /\ pc = "direct"
    /\ called = FALSE
    /\ ret = "none"
    /\ src_dir = <<>>
    /\ dst_dir = <<>>
    /\ file_pair_list = <<>>
    /\ consumed = {}
    /\ ok_cnt = 0
    /\ fail_cnt = 0
    /\ out = <<>>
    /\ run = 1
    /\ hist = <<>>
    /\ external = 0

NextResize ==
    \/ \E i \in DOMAIN futs : TaskStart(i)
    \/ \E i \in DOMAIN futs : TaskRead(i)
    \/ \E i \in DOMAIN futs : TaskWrite(i)
    \/ \E i \in DOMAIN futs : TaskReturn(i)

SpecResize == InitResize /\ [][NextResize]_vars

(***************************************************************************)
(* Properties of the batch run (Spec).                                     *)
(***************************************************************************)
\* the summary line of line 114 has been printed in this run
SummaryPrinted == \E i \in DOMAIN out : out[i][1] = "finished"

NothingToDoPrinted == \E i \in DOMAIN out : out[i][1] = "no image"

EndsWith(name, e) ==
    Len(name) >= Len(e) /\ SubSeq(name, Len(name) - Len(e) + 1, Len(name)) = e

\* the name ends, letter for letter, in .jpg, .png or .jpeg
HasImageExt(name) ==
    \/ EndsWith(name, <<".", "j", "p", "g">>)
    \/ EndsWith(name, <<".", "p", "n", "g">>)
    \/ EndsWith(name, <<".", "j", "p", "e", "g">>)

\* the destination directory joined with the unchanged file name
DstOf(name) == dst_dir \o <<"/">> \o name

\* the names of the source files of the work items
ItemNames == {n \in Names : \E i \in DOMAIN file_pair_list :
                                file_pair_list[i][1] = src_dir \o <<"/">> \o n}

Failed == {i \in DOMAIN futs : futs[i].st = "done" /\ ~futs[i].res}

\* C1: in the collection loop ok_cnt + fail_cnt is the number of tasks whose
\* completion the loop has taken from as_completed, each of them a finished
\* task, and the summary reports counters that add up to the number of
\* submitted work items.
CountersMatchCompleted ==
    /\ pc = "collect" =>
          /\ ok_cnt + fail_cnt = Cardinality(consumed)
          /\ \A i \in consumed : futs[i].st = "done"
    /\ \A i \in DOMAIN out :
          out[i][1] = "finished" =>
              /\ out[i][2] + out[i][3] = Len(file_pair_list)
              /\ Len(futs) = Len(file_pair_list)

\* in the loop, a success and a failure counted and a third task not yet
CountersMidLoop ==
    /\ pc = "collect"
    /\ ok_cnt = 1
    /\ fail_cnt = 1
    /\ Len(futs) = 3
    /\ Cardinality(consumed) = 2

\* C2: the summary of a batch of N work items of which k tasks returned
\* failure reports ok = N - k and fail = k, whatever the order in which the
\* tasks ran and completed.
FinalCountsExact ==
    \A i \in DOMAIN out :
        out[i][1] = "finished" =>
            out[i] = <<"finished", Len(file_pair_list) - Cardinality(Failed),
                       Cardinality(Failed)>>

\* the summary of three items, one of them failed
FinalCountsTwoOne ==
    /\ pc = "exit"
    /\ Len(file_pair_list) = 3
    /\ Cardinality(Failed) = 1
    /\ \E i \in DOMAIN out : out[i] = <<"finished", 2, 1>>

\* a second or later run that has enumerated, after a run that returned true
\* and with no file removed by another process
LaterRunEnumerated ==
    /\ run > 1
    /\ external = 0
    /\ hist[run - 1].ret = "true"
    /\ pc \in {"submit", "collect", "exit"}

\* C3 as stated: the second run on the same directories has no work item and
\* reports that there is nothing to do.
SecondRunIdle ==
    LaterRunEnumerated => (file_pair_list = <<>> /\ NothingToDoPrinted)

\* C3, amended: the second run has no work item and reports that there is
\* nothing to do, provided every work item of the first run has its
\* destination file.
SecondRunIdleIfWritten ==
    (LaterRunEnumerated /\ \A item \in hist[run - 1].items : isfile(item[2]))
        => (file_pair_list = <<>> /\ NothingToDoPrinted)

\* a second run with nothing to do after a first run that wrote two files
SecondRunSkipsAll ==
    /\ run = 2
    /\ pc = "exit"
    /\ external = 0
    /\ hist[1].ok = 2
    /\ Cardinality(hist[1].items) = 2
    /\ \A item \in hist[1].items : isfile(item[2])
    /\ file_pair_list = <<>>
    /\ NothingToDoPrinted

\* C4: when the summary is printed every submitted task is done, and while
\* the main thread submits or waits, a task that has not started can start
\* and a task that runs can go on, whatever other tasks have returned.
SummaryAfterAllTasks ==
    /\ SummaryPrinted =>
          /\ Len(futs) = Len(file_pair_list)
          /\ \A i \in DOMAIN futs : futs[i].st = "done"
    /\ pc \in {"submit", "collect"} =>
          \A i \in DOMAIN futs :
              /\ futs[i].st = "pending" => ENABLED TaskStart(i)
              /\ futs[i].st = "running" => ENABLED TaskRead(i)
              /\ futs[i].st = "read" => ENABLED TaskWrite(i)
              /\ futs[i].st = "written" => ENABLED TaskReturn(i)

\* a failure counted while another task has not started
FailureWhileOthersPending ==
    /\ pc = "collect"
    /\ \E i \in consumed : ~futs[i].res
    /\ \E j \in DOMAIN futs : futs[j].st = "pending"

\* C5: resize_image_dir returns true when the source directory exists, and
\* so whenever it has printed the summary, whatever the tasks returned.
ReturnsTrueIfSrcDir ==
    /\ (pc = "exit" /\ called /\ isdir(src_dir)) => ret = "true"
    /\ SummaryPrinted => ret = "true"
    /\ (pc = "exit" /\ called /\ ret = "false") => ~isdir(src_dir)

\* every task of a batch of three failed, and true is returned
AllFailedReturnsTrue ==
    /\ pc = "exit"
    /\ ret = "true"
    /\ SummaryPrinted
    /\ ok_cnt = 0
    /\ fail_cnt = 3

\* C6 as stated: with fewer than three arguments after the program's name
\* the program prints the usage, exits without error and does not call
\* resize_image_dir.
FewArgsPrintUsage ==
    (Len(argv) - 1 < 3 /\ pc # "main") =>
        /\ pc = "exit"
        /\ \E i \in DOMAIN out : out[i][1] = "usage"
        /\ ~called

\* C8: the source file of every work item and of every submitted task has a
\* name that ends, letter for letter, in .jpg, .png or .jpeg.
OnlyImageExtEnumerated ==
    /\ \A i \in DOMAIN file_pair_list :
          \E n \in Names : /\ file_pair_list[i][1] = src_dir \o <<"/">> \o n
                           /\ HasImageExt(n)
    /\ \A i \in DOMAIN futs :
          \E n \in Names : /\ futs[i].src = src_dir \o <<"/">> \o n
                           /\ HasImageExt(n)

\* a listing with d.JPG and n.txt, and a.jpg the only work item
OthersNotEnumerated ==
    /\ pc = "collect"
    /\ {<<"d", ".", "J", "P", "G">>, <<"n", ".", "t", "x", "t">>} \subseteq listdir(src_dir)
    /\ ItemNames = {<<"a", ".", "j", "p", "g">>}
    /\ Len(futs) = 1

\* the file system is as the enumeration saw it: nothing submitted yet and
\* no source of a work item removed
JustEnumerated ==
    \/ /\ pc = "submit"
       /\ futs = <<>>
       /\ \A i \in DOMAIN file_pair_list : fs[file_pair_list[i][1]].kind # "absent"
    \/ pc = "exit" /\ NothingToDoPrinted

\* C9: the work items are the candidates of the listing at whose destination
\* path, the destination directory joined with the file's name, there is no
\* regular file; each of them with that path.
SkippedIffDstFile ==
    JustEnumerated =>
        /\ ItemNames = {n \in listdir(src_dir) : HasImageExt(n) /\ fs[DstOf(n)].kind # "file"}
        /\ \A i \in DOMAIN file_pair_list :
              \E n \in Names : file_pair_list[i] = <<src_dir \o <<"/">> \o n, DstOf(n)>>

\* a.jpg skipped for the file at its destination; a.png, with a directory
\* at its destination, and c.jpeg, with nothing there, are work items
SkipsOnlyRegularFile ==
    /\ pc = "submit"
    /\ futs = <<>>
    /\ listdir(src_dir) = {<<"a", ".", "j", "p", "g">>, <<"a", ".", "p", "n", "g">>,
                           <<"c", ".", "j", "p", "e", "g">>}
    /\ fs[DstOf(<<"a", ".", "j", "p", "g">>)].kind = "file"
    /\ fs[DstOf(<<"a", ".", "p", "n", "g">>)].kind = "dir"
    /\ ItemNames = {<<"a", ".", "p", "n", "g">>, <<"c", ".", "j", "p", "e", "g">>}

\* C10: no two work items of an enumeration, and so no two submitted tasks,
\* have the same destination path.
DistinctDstPaths ==
    /\ \A i, j \in DOMAIN file_pair_list :
          file_pair_list[i][2] = file_pair_list[j][2] => i = j
    /\ \A i, j \in DOMAIN futs : futs[i].dst = futs[j].dst => i = j

\* a.jpg and a.png running at the same time, each with its own destination
TwoRunningApart ==
    /\ pc = "collect"
    /\ \E i, j \in DOMAIN futs :
          /\ i # j
          /\ futs[i].st = "running"
          /\ futs[j].st = "running"
          /\ futs[i].src = src_dir \o <<"/", "a", ".", "j", "p", "g">>
          /\ futs[j].src = src_dir \o <<"/", "a", ".", "p", "n", "g">>
          /\ futs[i].dst # futs[j].dst

\* the steps of lines 41-52 as the task met them: cv2.imread gave no image,
\* the new size has a side that is not positive, the destination cannot be
\* opened for writing
Decoded(i) == futs[i].img # NoImage

DecodeFails(i) ==
    futs[i].st = "done" /\ futs[i].err # "file not exist" /\ ~Decoded(i)

ScaleFails(i) ==
    /\ Decoded(i)
    /\ \E side \in 1..2 :
          Size(futs[i].img.w, futs[i].img.h, larger_edge)[side] <= 0

EncodeFails(i) == Decoded(i) /\ ~ScaleFails(i) /\ fs[futs[i].dst].kind = "dir"

\* C11 as stated: a task whose decode, scale or encode step failed has the
\* result False, which the loop counts in fail_cnt, and the batch runner is
\* not ended by an exception once it has submitted its tasks.
FailureBecomesFalse ==
    /\ \A i \in DOMAIN futs :
          (futs[i].st = "done" /\ (DecodeFails(i) \/ ScaleFails(i) \/ EncodeFails(i)))
              => /\ ~futs[i].res
                 /\ i \in consumed => fail_cnt >= 1
    /\ pc = "crashed" => futs = <<>>

\* C12: a task whose source path is no regular file when the task starts
\* (the file disappeared after the enumeration) returns False at the test of
\* line 36 without raising, with no decode and no write; it leaves no file
\* at its destination path and the loop counts it, once it takes it, as one
\* failure.
SourceMissingFails ==
    /\ [][\A i \in DOMAIN futs :
             (/\ run' = run
              /\ futs[i].st = "pending"
              /\ ~isfile(futs[i].src)
              /\ futs'[i] # futs[i]) =>
                 /\ futs'[i] = [futs[i] EXCEPT !.st = "done",
                                                !.err = "file not exist"]
                 /\ ~futs'[i].res
                 /\ fs' = fs]_vars
    /\ [](\A i \in DOMAIN futs :
             futs[i].err = "file not exist" =>
                 /\ futs[i].st = "done"
                 /\ ~futs[i].res
                 /\ ~Decoded(i)
                 /\ fs[futs[i].dst].kind # "file"
                 /\ i \in consumed =>
                       /\ fail_cnt >= 1
                       /\ fail_cnt = Cardinality({j \in consumed : ~futs[j].res}))

\* a.jpg removed by another process before its task started, the task done
\* and counted as the one failure
RemovedSourceCounted ==
    /\ pc = "collect"
    /\ external = 1
    /\ fail_cnt = 1
    /\ \E i \in consumed :
          /\ futs[i].src = src_dir \o <<"/", "a", ".", "j", "p", "g">>
          /\ fs[futs[i].src].kind = "absent"
          /\ futs[i].err = "file not exist"
          /\ ~futs[i].res
          /\ fs[futs[i].dst].kind = "absent"

\* C13 as stated: a task that returned True has left a regular file at its
\* destination path, and a task that returned False because its source was
\* missing or did not decode has left none.
SuccessWritesOneFile ==
    \A i \in DOMAIN futs :
        futs[i].st = "done" =>
            /\ futs[i].res => fs[futs[i].dst].kind = "file"
            /\ (~futs[i].res /\ (futs[i].err = "file not exist" \/ DecodeFails(i)))
                   => fs[futs[i].dst].kind # "file"

\* resize_image_dir has been called and has decided about its directories
DirsChecked == called /\ pc \notin {"main", "check"}

\* the call has ended without doing the batch: it returned False or raised
Aborted == called /\ (ret = "false" \/ pc = "crashed")

\* the call with a missing source directory: False returned, nothing
\* enumerated, nothing submitted
MissingSrcReturnsFalse ==
    (DirsChecked /\ ~isdir(src_dir)) =>
        /\ pc = "exit"
        /\ ret = "false"
        /\ file_pair_list = <<>>
        /\ futs = <<>>
        /\ \E i \in DOMAIN out : out[i][1] = "dir not exist"

\* C14 as stated: with a missing source directory the call returns False
\* with nothing enumerated or submitted, and a missing source directory is
\* the only way the call is aborted.
MissingSrcOnlyAbort ==
    /\ MissingSrcReturnsFalse
    /\ Aborted => ~isdir(src_dir)

\* C14, amended: with a missing source directory the call returns False with
\* nothing enumerated or submitted and the file system as it was; the call is
\* aborted only by that or by os.makedirs raising because a regular file has
\* the name of the destination directory.
MissingSrcOrDstFileAborts ==
    /\ [](/\ MissingSrcReturnsFalse
          /\ Aborted => \/ ~isdir(src_dir)
                        \/ pc = "crashed" /\ fs[dst_dir].kind = "file")
    /\ [][(pc = "check" /\ ~isdir(src_dir)) =>
              (fs' = fs /\ ret' = "false" /\ pc' = "exit")]_vars

\* False returned for the missing source directory, and the destination
\* directory still missing
MissingSrcNothingMade ==
    /\ pc = "exit"
    /\ called
    /\ ret = "false"
    /\ fs[src_dir].kind = "absent"
    /\ dst_dir # src_dir
    /\ fs[dst_dir].kind = "absent"

\* C15: the call goes on to submit only with a work item; with none it has
\* printed that there is nothing to do and returned True, with no task
\* submitted and neither the total nor the summary printed.
EmptySetNothingToDo ==
    /\ (called /\ pc \in {"submit", "collect"}) => file_pair_list # <<>>
    /\ (called /\ pc = "exit" /\ isdir(src_dir) /\ file_pair_list = <<>>) =>
          /\ ret = "true"
          /\ NothingToDoPrinted
          /\ futs = <<>>
          /\ consumed = {}
          /\ \A i \in DOMAIN out : out[i][1] \notin {"total", "finished", "fail", "progress"}

\* a first run that found a.jpg already at the destination and n.txt no
\* candidate, and so nothing to do
AllPresentNothingToDo ==
    /\ run = 1
    /\ pc = "exit"
    /\ ret = "true"
    /\ listdir(src_dir) = {<<"a", ".", "j", "p", "g">>, <<"n", ".", "t", "x", "t">>}
    /\ fs[DstOf(<<"a", ".", "j", "p", "g">>)].kind = "file"
    /\ dst_dir # src_dir
    /\ NothingToDoPrinted
    /\ futs = <<>>

\* how far a task is
Rank(st) ==
    CASE st = "pending" -> 0 [] st = "running" -> 1 [] st = "read" -> 2
      [] st = "written" -> 3 [] st = "done" -> 4

\* C17: the tasks of a run are its work items, one task each and in their
\* order, all of them submitted when the loop begins, and every result the
\* loop has taken is counted once; within a run a task only moves on from
\* pending towards done, a task that is done stays as it is, and each
\* step of the loop takes one new task and adds one to the counters.
OneTaskPerItemNoRetry ==
    /\ [](/\ Len(futs) <= Len(file_pair_list)
          /\ \A i \in DOMAIN futs : <<futs[i].src, futs[i].dst>> = file_pair_list[i]
          /\ (pc = "collect" \/ SummaryPrinted) =>
                /\ Len(futs) = Len(file_pair_list)
                /\ consumed \subseteq DOMAIN futs
                /\ ok_cnt + fail_cnt = Cardinality(consumed))
    /\ [][run' = run =>
             /\ \A i \in DOMAIN futs :
                   /\ i \in DOMAIN futs'
                   /\ Rank(futs'[i].st) >= Rank(futs[i].st)
                   /\ futs[i].st = "done" => futs'[i] = futs[i]
             /\ consumed \subseteq consumed'
             /\ pc = "collect" =>
                   (ok_cnt' + fail_cnt') - (ok_cnt + fail_cnt)
                       = Cardinality(consumed' \ consumed)
             /\ Cardinality(consumed' \ consumed) <= 1]_vars

\* the summary of two tasks, one of them failed and not run again
FailedTaskFinal ==
    /\ pc = "exit"
    /\ SummaryPrinted
    /\ Len(futs) = 2
    /\ consumed = {1, 2}
    /\ ok_cnt = 1
    /\ fail_cnt = 1
    /\ Cardinality(Failed) = 1

\* C18: under fair scheduling, with every call of resize_image going on to
\* its return, a call of resize_image_dir does not stay for ever between its
\* first submission and its return: again and again it is found outside the
\* submissions and the loop, and the only way out of them is the summary
\* printed and True returned.
BatchTerminates ==
    /\ []<>(pc \notin {"submit", "collect"})
    /\ []((called /\ pc = "exit" /\ file_pair_list # <<>>) =>
             (SummaryPrinted /\ ret = "true"))
    /\ [][(pc \in {"submit", "collect"}) =>
              (pc' \in {"submit", "collect", "exit"})]_vars

\* the summary after a batch whose first task failed and whose later tasks
\* ran all the same
TerminatedAfterFailure ==
    /\ pc = "exit"
    /\ SummaryPrinted
    /\ ret = "true"
    /\ Len(futs) = 3
    /\ ~futs[1].res
    /\ futs[2].res
    /\ futs[3].res

\* no step of the program changes a regular file that is there
FilesKept ==
    external' = external => \A p \in Paths : fs[p].kind = "file" => fs'[p] = fs[p]

\* a call whose destination directory is its source directory has enumerated
SameDirEnumerated ==
    /\ DirsChecked
    /\ dst_dir = src_dir
    /\ isdir(src_dir)
    /\ pc # "enumerate"

\* C19 as stated: no task writes a file that was there when the run
\* enumerated, and a run whose destination directory is its source directory
\* has no work item and reports that there is nothing to do.
SameDirAllSkipped ==
    /\ [][FilesKept]_vars
    /\ [](SameDirEnumerated =>
             (pc = "exit" /\ file_pair_list = <<>> /\ NothingToDoPrinted))

\* C19, amended: no task writes a regular file that was there when the run
\* enumerated, and a run whose destination directory is its source directory
\* has as its work items the candidates that are no regular files, so that
\* it reports that there is nothing to do when every candidate is one.
SameDirFilesSkipped ==
    /\ [][FilesKept]_vars
    /\ [](SameDirEnumerated =>
             /\ ItemNames = {n \in listdir(src_dir) :
                                HasImageExt(n) /\ fs[src_dir \o <<"/">> \o n].kind # "file"}
             /\ ItemNames = {} =>
                   (pc = "exit" /\ file_pair_list = <<>> /\ NothingToDoPrinted))

\* source and destination the same directory with a.jpg and a.png in it:
\* nothing to do
SameDirNothingToDo ==
    /\ pc = "exit"
    /\ dst_dir = src_dir
    /\ ret = "true"
    /\ listdir(src_dir) = {<<"a", ".", "j", "p", "g">>, <<"a", ".", "p", "n", "g">>}
    /\ file_pair_list = <<>>
    /\ NothingToDoPrinted

(***************************************************************************)
(* Properties of one call of resize_image (SpecResize).                    *)
(***************************************************************************)
\* the image of the call, the file it left, and the call's end
SrcImage == fs[ProbeSrc]

DstImage == fs[ProbeDst]

CallDone == pc = "direct" /\ futs[1].st = "done"

Abs(x) == IF x < 0 THEN -x ELSE x

\* C7 as stated: the call leaves an image whose larger side is the larger
\* edge and whose aspect ratio nw/nh is within 1/min(nw, nh) of w/h (the
\* inequality multiplied by nh * h * min(nw, nh)).
SizeWithinTolerance ==
    CallDone =>
        /\ futs[1].res
        /\ DstImage.kind = "file"
        /\ Max2(DstImage.w, DstImage.h) = larger_edge
        /\ Abs(DstImage.w * SrcImage.h - SrcImage.w * DstImage.h)
               * Min2(DstImage.w, DstImage.h) <= DstImage.h * SrcImage.h

\* C16 as stated: the image a successful call leaves is E x floor(E*h/w)
\* when w > h and floor(E*w/h) x E otherwise, the square image included.
SizeIsFloor ==
    (CallDone /\ futs[1].res) =>
        DstImage = IF SrcImage.w > SrcImage.h
                   THEN ImageFile(larger_edge, (larger_edge * SrcImage.h) \div SrcImage.w)
                   ELSE ImageFile((larger_edge * SrcImage.w) \div SrcImage.h, larger_edge)

====
